---- MODULE Spec2Model ----
(***************************************************************************)
(* The crawl-and-persist pipeline of generate_ics_bulk.py: the SQLite      *)
(* repository (init_db, get_or_create_*, insert_fixture), the fetcher      *)
(* (safe_get), the page extractors and the crawl orchestrator              *)
(* (crawl_and_populate_db).                                                *)
(*                                                                         *)
(* A str is a sequence of one-character strings where the code looks       *)
(* inside it (names, slugs); urls, addresses and results, which the code   *)
(* only compares and stores, are strings.                                  *)
(***************************************************************************)
EXTENDS Integers, Sequences, FiniteSets, TLC

(***************************************************************************)
(* Bounds of the model.                                                    *)
(***************************************************************************)
\* crawl runs in one behaviour
MaxRuns == 2
\* options of the league-group dropdown
MaxGroups == 2
\* leagues on one league-group page
MaxLeagues == 2
\* table rows on one league page (both sections together)
MaxFixtures == 2

(***************************************************************************)
(* Python values.                                                          *)
(***************************************************************************)
\* None where the other values are integers (row ids start at 1)
NULL == 0
\* None where the other values are strings
None == "None"

Min(S) == CHOOSE x \in S : \A y \in S : x <= y

(***************************************************************************)
(* slugify                                                                 *)
(***************************************************************************)
\* str.strip() with no argument removes whitespace
Whitespace == {" "}
\* the characters of the model's alphabet that \W matches
NonWordChars == {" ", "-", ".", "&"}

IsWordChar(c) == c \notin NonWordChars

\* str.lower(), one character
LowerChar(c) ==
  CASE c = "A" -> "a" [] c = "D" -> "d" [] c = "E" -> "e" [] c = "G" -> "g"
    [] c = "H" -> "h" [] c = "T" -> "t" [] c = "V" -> "v" [] c = "W" -> "w"
    [] c = "X" -> "x" [] c = "Y" -> "y" [] c = "Z" -> "z" [] OTHER -> c

lower(s) == [i \in 1..Len(s) |-> LowerChar(s[i])]

RECURSIVE lstrip(_, _)
lstrip(s, chars) ==
  IF s = << >> THEN s
  ELSE IF Head(s) \in chars THEN lstrip(Tail(s), chars) ELSE s

RECURSIVE rstrip(_, _)
rstrip(s, chars) ==
  IF s = << >> THEN s
  ELSE IF s[Len(s)] \in chars THEN rstrip(SubSeq(s, 1, Len(s) - 1), chars) ELSE s

\* str.strip(chars)
strip(s, chars) == rstrip(lstrip(s, chars), chars)

\* re.sub(r"\W+", "_", s): every maximal run of non-word characters becomes one "_"
RECURSIVE sub_nonword(_)
sub_nonword(s) ==
  IF s = << >> THEN << >>
  ELSE IF IsWordChar(Head(s)) THEN <<Head(s)>> \o sub_nonword(Tail(s))
  ELSE <<"_">> \o sub_nonword(lstrip(Tail(s), NonWordChars))

slugify(text) == strip(sub_nonword(lower(strip(text, Whitespace))), {"_"})

(***************************************************************************)
(* The relational store.  A table is the sequence of its rows in insertion *)
(* order; a row's id is its position (INTEGER PRIMARY KEY AUTOINCREMENT,   *)
(* and no row is ever deleted).                                            *)
(***************************************************************************)
\* the five tables of init_db's CREATE TABLE IF NOT EXISTS, empty
EmptyTables ==
  [league_group |-> << >>, venue |-> << >>, league |-> << >>,
   team |-> << >>, fixture |-> << >>]

\* The connection and the database file: conn is what the connection reads
\* (its open transaction included), disk is what is committed.  init_db
\* connects to the file at DB_PATH and leaves the tables that exist alone.
init_db(file) == [conn |-> file, disk |-> file]

\* conn.commit()
commit(st) == [st EXCEPT !.disk = st.conn]

Ids(table) == 1..Len(table)

\* cur.fetchone() of "SELECT id FROM <table> WHERE slug = ?": the id, or NULL for None
SelectIdBySlug(table, slug) ==
  LET ids == {i \in Ids(table) : table[i].slug = slug}
  IN IF ids = {} THEN NULL ELSE Min(ids)

\* cur.fetchone() of "SELECT id FROM venue WHERE url = ?"
SelectIdByUrl(table, url) ==
  LET ids == {i \in Ids(table) : table[i].url = url}
  IN IF ids = {} THEN NULL ELSE Min(ids)

\* mutant: only the name column is UNIQUE
NameConflictOnly(table, row) ==
  \E i \in Ids(table) : table[i].name = row.name

\* league_group(name UNIQUE, slug UNIQUE), team(name UNIQUE, slug UNIQUE)
NameSlugConflict(table, row) ==
  \E i \in Ids(table) : table[i].name = row.name \/ table[i].slug = row.slug

\* league(url UNIQUE, slug UNIQUE)
LeagueConflict(table, row) ==
  \E i \in Ids(table) : table[i].url = row.url \/ table[i].slug = row.slug

\* venue(url UNIQUE)
VenueConflict(table, row) ==
  \E i \in Ids(table) : table[i].url = row.url

\* mutant: the UNIQUE constraint also covers the result column
FixtureConflictWithResult(table, row) ==
  \E i \in Ids(table) :
    /\ table[i].league_id = row.league_id
    /\ table[i].home_team_id = row.home_team_id
    /\ table[i].away_team_id = row.away_team_id
    /\ table[i].dt_utc = row.dt_utc
    /\ table[i].result = row.result

\* fixture UNIQUE(league_id, home_team_id, away_team_id, dt_utc)
FixtureConflict(table, row) ==
  \E i \in Ids(table) :
    /\ table[i].league_id = row.league_id
    /\ table[i].home_team_id = row.home_team_id
    /\ table[i].away_team_id = row.away_team_id
    /\ table[i].dt_utc = row.dt_utc

\* fixture's NOT NULL columns and REFERENCES clauses (PRAGMA foreign_keys = ON)
FixtureRefsOk(tables, row) ==
  /\ row.league_id \in Ids(tables.league)
  /\ row.venue_id = NULL \/ row.venue_id \in Ids(tables.venue)
  /\ row.home_team_id \in Ids(tables.team)
  /\ row.away_team_id \in Ids(tables.team)

\* mutant: a plain INSERT on a table without the UNIQUE constraints
InsertAlways(table, row, conflict) == Append(table, row)

\* INSERT OR IGNORE: the row is appended unless a UNIQUE constraint rejects it
InsertOrIgnore(table, row, conflict) ==
  IF conflict THEN table ELSE Append(table, row)

get_or_create_league_group(st, group_name) ==
  LET slug == slugify(group_name)
      row  == [name |-> group_name, slug |-> slug]
      t    == InsertOrIgnore(st.conn.league_group, row,
                             NameSlugConflict(st.conn.league_group, row))
      st2  == commit([st EXCEPT !.conn.league_group = t])
      id   == SelectIdBySlug(t, slug)
  IN [st |-> st2, ret |-> id, raised |-> id = NULL]

\* mutant: INSERT ... ON CONFLICT(slug) DO UPDATE, which moves a stored league to
\* the group, name and url of the call
upsert_league(st, group_id, league_name, league_url) ==
  LET slug == slugify(league_name)
      row  == [league_group_id |-> group_id, name |-> league_name,
               url |-> league_url, slug |-> slug]
      old  == SelectIdBySlug(st.conn.league, slug)
      t    == IF old # NULL THEN [st.conn.league EXCEPT ![old] = row]
              ELSE InsertOrIgnore(st.conn.league, row, LeagueConflict(st.conn.league, row))
      id   == SelectIdBySlug(t, slug)
  IN [st |-> commit([st EXCEPT !.conn.league = t]), ret |-> id, raised |-> id = NULL]

get_or_create_league(st, group_id, league_name, league_url) ==
  LET slug == slugify(league_name)
      row  == [league_group_id |-> group_id, name |-> league_name,
               url |-> league_url, slug |-> slug]
      t    == InsertOrIgnore(st.conn.league, row, LeagueConflict(st.conn.league, row))
      st2  == commit([st EXCEPT !.conn.league = t])
      id   == SelectIdBySlug(t, slug)
  IN [st |-> st2, ret |-> id, raised |-> id = NULL]

\* mutant: the id the venue row would get is returned and no row is inserted
venue_id_without_insert(st, venue_dict) ==
  IF venue_dict.url = None
  THEN [st |-> st, ret |-> NULL, raised |-> FALSE]
  ELSE [st |-> st, ret |-> Len(st.conn.venue) + 1, raised |-> FALSE]

get_or_create_venue(st, venue_dict) ==
  IF venue_dict.url = None
  THEN [st |-> st, ret |-> NULL, raised |-> FALSE]
  ELSE LET row == [url |-> venue_dict.url, name |-> venue_dict.name,
                   address |-> venue_dict.address]
           t   == InsertOrIgnore(st.conn.venue, row, VenueConflict(st.conn.venue, row))
           st2 == commit([st EXCEPT !.conn.venue = t])
       IN [st |-> st2, ret |-> SelectIdByUrl(t, venue_dict.url), raised |-> FALSE]

\* mutant: team rows are not UNIQUE and every call inserts and returns a new row
create_team(st, team_name) ==
  LET row == [name |-> team_name, slug |-> slugify(team_name)]
      t   == Append(st.conn.team, row)
  IN [st |-> commit([st EXCEPT !.conn.team = t]), ret |-> Len(t), raised |-> FALSE]

get_or_create_team(st, team_name) ==
  LET slug == slugify(team_name)
      row  == [name |-> team_name, slug |-> slug]
      t    == InsertOrIgnore(st.conn.team, row, NameSlugConflict(st.conn.team, row))
      st2  == commit([st EXCEPT !.conn.team = t])
      id   == SelectIdBySlug(t, slug)
  IN [st |-> st2, ret |-> id, raised |-> id = NULL]

\* mutant: INSERT ... ON CONFLICT DO UPDATE, which overwrites the stored row's
\* venue and result and returns its id
upsert_fixture(st, league_id, venue_id, home_id, away_id, dt_iso, result) ==
  LET row == [league_id |-> league_id, venue_id |-> venue_id,
              home_team_id |-> home_id, away_team_id |-> away_id,
              dt_utc |-> dt_iso, result |-> result]
      t   == st.conn.fixture
      hit == {i \in Ids(t) : /\ t[i].league_id = league_id
                             /\ t[i].home_team_id = home_id
                             /\ t[i].away_team_id = away_id
                             /\ t[i].dt_utc = dt_iso}
  IN IF ~FixtureRefsOk(st.conn, row) THEN [st |-> st, ret |-> NULL]
     ELSE IF hit # {}
     THEN [st  |-> commit([st EXCEPT !.conn.fixture[Min(hit)] = row]),
           ret |-> Min(hit)]
     ELSE [st  |-> commit([st EXCEPT !.conn.fixture = Append(@, row)]),
           ret |-> Len(t) + 1]

\* The strict INSERT raises sqlite3.IntegrityError on a UNIQUE or a foreign-key
\* violation; the handler returns None and commits nothing.
insert_fixture(st, league_id, venue_id, home_id, away_id, dt_iso, result) ==
  LET row == [league_id |-> league_id, venue_id |-> venue_id,
              home_team_id |-> home_id, away_team_id |-> away_id,
              dt_utc |-> dt_iso, result |-> result]
      IntegrityError == \/ FixtureConflict(st.conn.fixture, row)
                        \/ ~FixtureRefsOk(st.conn, row)
  IN IF IntegrityError
     THEN [st |-> st, ret |-> NULL]
     ELSE [st  |-> commit([st EXCEPT !.conn.fixture = Append(@, row)]),
           ret |-> Len(st.conn.fixture) + 1]


(***************************************************************************)
(* Kickoff times.  A local kickoff is a calendar day of 2025 (its ordinal) *)
(* and a minute of that day, in TIME_ZONE = Europe/London; dt_utc is the   *)
(* ISO-8601 text of the same instant in UTC, modelled as <<day, minute>>,  *)
(* whose order as a pair is the order of the texts.                        *)
(***************************************************************************)
\* British Summer Time (UTC+1) on the days strictly between the two 2025 changes
utcoffset(dt) == IF dt.date \in 90..298 THEN 60 ELSE 0

\* dt.astimezone(UTC)
astimezone_utc(dt) ==
  LET m == dt.time - utcoffset(dt)
  IN IF m < 0 THEN [date |-> dt.date - 1, time |-> m + 1440]
              ELSE [date |-> dt.date, time |-> m]

isoformat(dt) == <<dt.date, dt.time>>

(***************************************************************************)
(* Configuration.                                                          *)
(***************************************************************************)
BASE_URL == "https://footballmundial.com"
LEAGUE_PAGE_URL == <<BASE_URL, "/find_league">>
DEFAULT_EVENT_LOCATION == "301 Huntington Rd, Huntington, York YO32 9WT"

\* BASE_URL + relative
FullUrl(relative) == <<BASE_URL, relative>>

(***************************************************************************)
(* The site: what the pages hold.  The pools are the records the pages of  *)
(* the model are built from.                                               *)
(***************************************************************************)
\* <option> entries of the dropdown; "G-W" and "g w" have the same slug
gGW == [name |-> <<"G", "-", "W">>, value |-> "/g1"]
ggw == [name |-> <<"g", " ", "w">>, value |-> "/g2"]
gH  == [name |-> <<"H">>, value |-> "/g2"]
GroupPool == {gGW, ggw, gH}
GroupUrls == {"/g1", "/g2"}
\* the default entry of the dropdown
Placeholder == [name |-> <<"S", "e", "l">>, value |-> "/find_league"]

\* heading+link pairs of a league-group page: lD1 and lD2 share the name,
\* lD1 and lE1 share the url
lD1 == [name |-> <<"D">>, url |-> "/l1"]
lD2 == [name |-> <<"D">>, url |-> "/l2"]
lE1 == [name |-> <<"E">>, url |-> "/l1"]
LeaguePool == {lD1, lD2, lE1}
LeagueUrls == {"/l1", "/l2"}

\* venue links of a league page
vV ==  [name |-> "V", url |-> "/info/venues/1"]
vW ==  [name |-> "W", url |-> "/info/venues/2"]
VenueLinks == {vV, vW}
\* a league page without a link to /info/venues/<n>
NoVenueLink == [name |-> None, url |-> None]
VenueUrls == {"/info/venues/1", "/info/venues/2"}

\* kickoffs: 19 May 21:45 and 12 May 21:45 local time (both BST)
k19 == [date |-> 139, time |-> 1305]
k12 == [date |-> 132, time |-> 1305]

\* table rows of a league page: kind "row" is a well-formed row, any other kind
\* a row the extractor skips; score is cells[2] of the row
uXY == [kind |-> "row", dt |-> k19, home_name |-> <<"X">>, away_name |-> <<"Y">>, score |-> "v"]
uXx == [kind |-> "row", dt |-> k19, home_name |-> <<"X">>, away_name |-> <<"x", ".">>, score |-> "v"]
uBad == [kind |-> "bad_time", dt |-> k19, home_name |-> <<"X">>, away_name |-> <<"Y">>, score |-> "v"]
rXZ == [kind |-> "row", dt |-> k12, home_name |-> <<"X">>, away_name |-> <<"Z">>, score |-> "3-1"]
rxY == [kind |-> "row", dt |-> k19, home_name |-> <<"x", ".">>, away_name |-> <<"Y">>, score |-> "2-0"]
UpcomingPool == {uXY, uXx, uBad}
ResultsPool == {rXZ, rxY}

\* sequences over S of length at most n
RECURSIVE SeqsUpTo(_, _)
SeqsUpTo(S, n) ==
  IF n = 0 THEN {<< >>}
  ELSE LET shorter == SeqsUpTo(S, n - 1)
       IN shorter \cup {Append(s, x) : s \in {t \in shorter : Len(t) = n - 1}, x \in S}

\* a league page: the venue link (NoVenueLink when the page has none) and the rows of
\* its "upcoming" and "results" sections
LeaguePages ==
  {[venue_link |-> v, upcoming |-> u, results |-> r] :
     v \in VenueLinks \cup {NoVenueLink},
     <<u, r>> \in {ur \in SeqsUpTo(UpcomingPool, MaxFixtures) \X SeqsUpTo(ResultsPool, MaxFixtures) :
                     Len(ur[1]) + Len(ur[2]) <= MaxFixtures}}

\* a venue page: whether the "Address" block is there, and the text lines under it
VenuePages ==
  {[address_block |-> TRUE, lines |-> <<"12 Park Rd">>],
   [address_block |-> TRUE, lines |-> << >>],
   [address_block |-> FALSE, lines |-> << >>]}

AllUrls ==
  {LEAGUE_PAGE_URL} \cup {FullUrl(u) : u \in GroupUrls \cup LeagueUrls \cup VenueUrls}


(***************************************************************************)
(* The sites and inputs the model is run on: families that each vary one   *)
(* level of the site around a base site.                                   *)
(***************************************************************************)
BaseGroups == <<gGW, gH>>
BaseLeaguesOf == [u \in GroupUrls |-> IF u = "/g1" THEN <<lE1, lD2>> ELSE <<lD1>>]
BasePage1 == [venue_link |-> vV, upcoming |-> <<uXY>>, results |-> <<rXZ>>]
BasePage2 == [venue_link |-> vW, upcoming |-> <<uXY>>, results |-> << >>]
BasePageOf == [u \in LeagueUrls |-> IF u = "/l1" THEN BasePage1 ELSE BasePage2]
BaseVenuePage ==
  [u \in VenueUrls |-> IF u = "/info/venues/1"
                       THEN [address_block |-> TRUE, lines |-> <<"12 Park Rd">>]
                       ELSE [address_block |-> FALSE, lines |-> << >>]]

\* select: the dropdown is on the page; down: the urls whose every GET fails
BaseSite ==
  [select |-> TRUE, groups |-> BaseGroups, leagues_of |-> BaseLeaguesOf,
   page_of |-> BasePageOf, venue_page |-> BaseVenuePage, down |-> {}]

\* the dropdown varies, or is missing
IndexSites ==
  {[BaseSite EXCEPT !.groups = g] : g \in SeqsUpTo(GroupPool, MaxGroups)}
  \cup {[BaseSite EXCEPT !.select = FALSE, !.groups = << >>]}

\* the league-group pages vary
GroupSites ==
  {[BaseSite EXCEPT !.leagues_of = [u \in GroupUrls |-> IF u = "/g1" THEN a ELSE b]] :
     a \in SeqsUpTo(LeaguePool, MaxLeagues), b \in {<<lD1>>, <<lD2, lE1>>}}

\* the page of league url /l1 varies, under one league group that lists /l1 and
\* /l2 as two leagues or as one
PageSites ==
  {[BaseSite EXCEPT !.groups = <<gGW>>,
                    !.leagues_of = [u \in GroupUrls |-> l],
                    !.page_of = [u \in LeagueUrls |-> IF u = "/l1" THEN p ELSE BasePage2]] :
     l \in {<<lE1, lD2>>, <<lD2, lD1>>}, p \in LeaguePages}

\* the venue pages vary
VenueSites ==
  {[BaseSite EXCEPT !.venue_page = [u \in VenueUrls |-> v]] : v \in VenuePages}

\* some urls are down
DownSites ==
  {[BaseSite EXCEPT !.down = d] : d \in SUBSET AllUrls}

\* a site with one league group "Accrington - Weds", its one league "Division A"
\* played at a venue whose page gives "12 Park Rd", TeamX v TeamY upcoming on
\* 19 May 21:45 and TeamX 3-1 TeamZ played on 12 May 21:45 (local time)
TeamX == <<"T", "e", "a", "m", "X">>
TeamY == <<"T", "e", "a", "m", "Y">>
TeamZ == <<"T", "e", "a", "m", "Z">>
gAccringtonWeds ==
  [name |-> <<"A", "c", "c", "r", "i", "n", "g", "t", "o", "n", " ", "-", " ",
              "W", "e", "d", "s">>,
   value |-> "/g1"]
lDivisionA ==
  [name |-> <<"D", "i", "v", "i", "s", "i", "o", "n", " ", "A">>, url |-> "/l1"]
DivisionAPage ==
  [venue_link |-> vV,
   upcoming |-> <<[kind |-> "row", dt |-> k19, home_name |-> TeamX, away_name |-> TeamY,
                   score |-> "v"]>>,
   results |-> <<[kind |-> "row", dt |-> k12, home_name |-> TeamX, away_name |-> TeamZ,
                  score |-> "3-1"]>>]
AccringtonSite ==
  [select |-> TRUE, groups |-> <<gAccringtonWeds>>,
   leagues_of |-> [u \in GroupUrls |-> IF u = "/g1" THEN <<lDivisionA>> ELSE << >>],
   page_of |-> [u \in LeagueUrls |-> DivisionAPage],
   venue_page |-> BaseVenuePage, down |-> {}]

Sites ==
  IndexSites \cup GroupSites \cup PageSites \cup VenueSites \cup DownSites
  \cup {AccringtonSite}

\* crawl_and_populate_db's limit: << >> is None, as main() passes it, <<n>> is n
NoLimit == << >>

Scenarios ==
  {[site |-> w, limit |-> NoLimit] : w \in Sites}
  \cup {[site |-> BaseSite, limit |-> <<n>>] : n \in 0..MaxGroups}

(***************************************************************************)
(* State.                                                                  *)
(***************************************************************************)
VARIABLES
  site,            \* the site crawled
  limit,           \* the limit argument of crawl_and_populate_db
  run,             \* crawl runs started so far
  pc,              \* where the crawl is
  store,           \* the connection and the database file
  venue_cache,     \* _venue_cache: venue url -> address
  league_groups,   \* crawl_and_populate_db's locals
  gi,              \* position of the for loop over league_groups
  lg_id,
  parsed_leagues,
  li,              \* position of the for loop over parsed_leagues
  league_id,
  fixtures,
  venue_dict,
  venue_id,
  fi,              \* position of the for loop over fixtures
  home_tid,
  away_tid,
  ret,             \* what the last repository call returned
  caller,          \* the function that called safe_get
  full_url,        \* safe_get's argument
  attempt,         \* safe_get's loop variable
  resp,            \* what safe_get returned: "Response" or None
  events,          \* HTTP requests, log records and sleeps of the current safe_get call
  logged,          \* the log records of the step just taken, outside safe_get
  start,           \* the committed tables when the current run began
  ics              \* the last calendar build since the run ended: its rows and calendar

inputs == <<site, limit>>
locals == <<league_groups, gi, lg_id, parsed_leagues, li, league_id, fixtures,
            venue_dict, venue_id, fi, home_tid, away_tid>>
fetch  == <<caller, full_url, attempt, resp, events>>
vars   == <<site, limit, run, pc, store, venue_cache, league_groups, gi, lg_id,
            parsed_leagues, li, league_id, fixtures, venue_dict, venue_id, fi,
            home_tid, away_tid, ret, caller, full_url, attempt, resp, events,
            logged, start, ics>>

\* mutant: the sentinel venue carries a placeholder url
UnknownVenueWithUrl ==
  [name |-> "Unknown", url |-> "unknown", address |-> DEFAULT_EVENT_LOCATION]

\* the sentinel venue of a page without a venue link, or of a page not fetched
UnknownVenue == [name |-> "Unknown", url |-> None, address |-> DEFAULT_EVENT_LOCATION]

\* _venue_cache = {}: no url has an address
EmptyCache == [u \in VenueUrls |-> None]

\* _build_ics returned before cal = Calendar(): no file is written
NoCalendar == [written |-> FALSE, creator |-> << >>, events |-> << >>]

\* no build_team_ics or build_league_ics call since the run ended
NoIcs == [kind |-> "none", slug |-> << >>, rows |-> << >>, cal |-> NoCalendar]

Init ==
  /\ \E sc \in Scenarios : site = sc.site /\ limit = sc.limit
  /\ run = 0
  /\ pc = "idle"
  /\ store = init_db(EmptyTables)
  /\ venue_cache = EmptyCache
  /\ league_groups = << >> /\ gi = 0 /\ lg_id = NULL
  /\ parsed_leagues = << >> /\ li = 0 /\ league_id = NULL
  /\ fixtures = << >> /\ venue_dict = UnknownVenue /\ venue_id = NULL
  /\ fi = 0 /\ home_tid = NULL /\ away_tid = NULL
  /\ ret = NULL
  /\ caller = None /\ full_url = LEAGUE_PAGE_URL /\ attempt = 0 /\ resp = None
  /\ events = << >>
  /\ logged = << >>
  /\ start = EmptyTables
  /\ ics = NoIcs


(***************************************************************************)
(* safe_get                                                                *)
(***************************************************************************)
\* mutant: range(1, 5)
FourAttempts == 3 + 1

\* range(1, 4)
MaxAttempts == 3

\* What SESSION.get and raise_for_status can do at one attempt.  A url that is
\* down fails every time, with a network error or an error status; any other
\* url may fail on the first two attempts and answers by the third.
Outcomes(url, n) ==
  IF url \in site.down THEN {"ConnectionError", "HTTPError"}
  ELSE {"200"} \cup (IF n < 3 THEN {"ConnectionError", "HTTPError"} ELSE {})

\* mutant: a linear backoff, time.sleep(attempt)
LinearBackoff(n) == n

\* time.sleep(2 ** (attempt - 1))
BackoffSeconds(n) == 2 ^ (n - 1)

\* one thing safe_get does: a GET (attempt n, its outcome), a log record
\* (attempt n), or a sleep (of n seconds)
Event(ev, n, what) == [ev |-> ev, n |-> n, what |-> what, url |-> full_url]

\* a call of safe_get(url) by the function c: the for loop starts
Call(c, url) ==
  /\ caller' = c
  /\ full_url' = url
  /\ attempt' = 1
  /\ resp' = None
  /\ events' = << >>
  /\ pc' = "GET"

\* try: resp = SESSION.get(full_url); resp.raise_for_status(); return resp
\* except requests.RequestException: logger.warning(...)
HttpGet ==
  /\ pc = "GET"
  /\ \E outcome \in Outcomes(full_url, attempt) :
       IF outcome = "200"
       THEN /\ events' = Append(events, Event("GET", attempt, outcome))
            /\ resp' = "Response"
            /\ pc' = "returned"
       ELSE /\ events' = events \o <<Event("GET", attempt, outcome),
                                     Event("warning", attempt, outcome)>>
            /\ resp' = None
            /\ pc' = "backoff"
  /\ logged' = << >>
  /\ UNCHANGED <<inputs, run, store, venue_cache, locals, ret, caller, full_url,
                 attempt, start, ics>>

\* the sleep that ends the except block, and the loop's next round or its end
Backoff ==
  /\ pc = "backoff"
  /\ events' = Append(events, Event("sleep", BackoffSeconds(attempt), ""))
  /\ IF attempt < MaxAttempts
     THEN attempt' = attempt + 1 /\ pc' = "GET"
     ELSE attempt' = attempt /\ pc' = "giveup"
  /\ logged' = << >>
  /\ UNCHANGED <<inputs, run, store, venue_cache, locals, ret, caller, full_url,
                 resp, start, ics>>

\* mutant: return None without the logger.error
GiveUpSilently ==
  /\ pc = "giveup"
  /\ resp' = None
  /\ pc' = "returned"
  /\ logged' = << >>
  /\ UNCHANGED <<inputs, run, store, venue_cache, locals, ret, caller, full_url,
                 attempt, events, start, ics>>

\* logger.error("Giving up ..."); return None
GiveUp ==
  /\ pc = "giveup"
  /\ events' = Append(events, Event("error", attempt, ""))
  /\ resp' = None
  /\ pc' = "returned"
  /\ logged' = << >>
  /\ UNCHANGED <<inputs, run, store, venue_cache, locals, ret, caller, full_url,
                 attempt, start, ics>>

Returned(c) == pc = "returned" /\ caller = c


(***************************************************************************)
(* The extractors.                                                         *)
(***************************************************************************)
Log(level, what) == [level |-> level, what |-> what]

\* mutant: a page without the dropdown is read as a page with no option
LeagueNamesUnlogged(response) ==
  IF response = None \/ ~site.select THEN [leagues |-> << >>, log |-> << >>]
  ELSE [leagues |-> SelectSeq(<<Placeholder>> \o site.groups,
                              LAMBDA opt : opt.value # "" /\ opt.value # "/find_league"),
        log |-> << >>]

\* fetch_league_names_and_urls, after its safe_get: the (name, relative url) of
\* every option but the placeholders, and what it logs
LeagueNamesAndUrls(response) ==
  IF response = None THEN [leagues |-> << >>, log |-> << >>]
  ELSE IF ~site.select
  THEN [leagues |-> << >>, log |-> <<Log("error", "no dropdown")>>]
  ELSE [leagues |-> SelectSeq(<<Placeholder>> \o site.groups,
                              LAMBDA opt : opt.value # "" /\ opt.value # "/find_league"),
        log |-> << >>]

\* parse_league_group, after its safe_get
ParsedLeagues(response, group_url) ==
  IF response = None THEN << >> ELSE site.leagues_of[group_url]

\* the address text of a fetched venue page (every page of the model has at
\* most one line under "Address", which ", ".join leaves as it is)
AddressText(page) ==
  IF ~page.address_block THEN DEFAULT_EVENT_LOCATION
  ELSE IF page.lines = << >> THEN DEFAULT_EVENT_LOCATION
  ELSE page.lines[1]

\* the rows of one accordion section that become fixtures: a row whose cells,
\* time or links are malformed is skipped; only the results section has a result
SectionFixtures(rows, section_id) ==
  LET good == SelectSeq(rows, LAMBDA row : row.kind = "row")
  IN [i \in 1..Len(good) |->
        [dt |-> good[i].dt, home_name |-> good[i].home_name,
         away_name |-> good[i].away_name,
         result |-> IF section_id = "fixtures_accordion_results"
                    THEN good[i].score ELSE None]]

\* mutant: the results section is not read
UpcomingFixturesOnly(page) ==
  SectionFixtures(page.upcoming, "fixtures_accordion_fixtures")

\* the fixtures list of extract_fixtures_from_league: upcoming, then results
PageFixtures(page) ==
  SectionFixtures(page.upcoming, "fixtures_accordion_fixtures")
    \o SectionFixtures(page.results, "fixtures_accordion_results")

(***************************************************************************)
(* crawl_and_populate_db                                                   *)
(***************************************************************************)
\* bool(limit) and league_groups[:limit]
Limited(groups, lim) ==
  IF lim = NoLimit \/ lim = <<0>> THEN groups
  ELSE SubSeq(groups, 1, IF lim[1] < Len(groups) THEN lim[1] ELSE Len(groups))

ResetLocals ==
  /\ league_groups' = << >> /\ gi' = 0 /\ lg_id' = NULL
  /\ parsed_leagues' = << >> /\ li' = 0 /\ league_id' = NULL
  /\ fixtures' = << >> /\ venue_dict' = UnknownVenue /\ venue_id' = NULL
  /\ fi' = 0 /\ home_tid' = NULL /\ away_tid' = NULL

\* safe_get has returned and its caller has taken the response
ResetFetch ==
  /\ caller' = None /\ full_url' = LEAGUE_PAGE_URL /\ attempt' = 0 /\ resp' = None
  /\ events' = << >>

\* The process ends without reaching conn.close(): what was not committed is
\* rolled back, and the process's memory, _venue_cache included, is gone.
ProcessExit(st, how) ==
  /\ pc' = how
  /\ store' = init_db(st.disk)
  /\ venue_cache' = EmptyCache
  /\ ResetLocals
  /\ ResetFetch

\* an exception leaves crawl_and_populate_db (nothing catches it)
Raise(st) == ProcessExit(st, "crashed")

\* conn = init_db(DB_PATH); league_groups = fetch_league_names_and_urls(), up to
\* its safe_get.  A later run is in the same process or in a new one.
StartCrawl ==
  /\ pc \in {"idle", "done"}
  /\ run < MaxRuns
  /\ run' = run + 1
  /\ store' = init_db(store.disk)
  /\ start' = store.disk
  /\ ics' = NoIcs
  /\ venue_cache' \in {venue_cache, EmptyCache}
  /\ ResetLocals
  /\ ret' = NULL
  /\ logged' = << >>
  /\ Call("fetch_league_names_and_urls", LEAGUE_PAGE_URL)
  /\ UNCHANGED inputs

\* fetch_league_names_and_urls returns; if limit: league_groups = league_groups[:limit]
FetchLeagueNamesAndUrls ==
  /\ Returned("fetch_league_names_and_urls")
  /\ LET r == LeagueNamesAndUrls(resp)
     IN /\ league_groups' = Limited(r.leagues, limit)
        /\ logged' = r.log
  /\ gi' = 1
  /\ pc' = "for_group"
  /\ ResetFetch
  /\ UNCHANGED <<inputs, run, store, venue_cache, lg_id, parsed_leagues, li, league_id,
                 fixtures, venue_dict, venue_id, fi, home_tid, away_tid, ret, start, ics>>

\* for group_name, group_url in league_groups: lg_id = get_or_create_league_group(...);
\* parsed_leagues = parse_league_group(...), up to its safe_get
ProcessGroup ==
  /\ pc = "for_group"
  /\ gi <= Len(league_groups)
  /\ LET group == league_groups[gi]
         r == get_or_create_league_group(store, group.name)
     IN IF r.raised
        THEN /\ Raise(r.st)
             /\ ret' = NULL
             /\ logged' = <<Log("info", "group")>>
        ELSE /\ store' = r.st
             /\ lg_id' = r.ret
             /\ ret' = r.ret
             /\ logged' = <<Log("info", "group")>>
             /\ Call("parse_league_group", FullUrl(group.value))
             /\ UNCHANGED <<venue_cache, league_groups, gi, parsed_leagues, li, league_id,
                            fixtures, venue_dict, venue_id, fi, home_tid, away_tid>>
  /\ UNCHANGED <<inputs, run, start, ics>>

\* the loop over league_groups is over: the with block commits, conn.close(),
\* logger.info("Done crawling ...")
Finish ==
  /\ pc = "for_group"
  /\ gi > Len(league_groups)
  /\ store' = commit(store)
  /\ logged' = <<Log("info", "done")>>
  /\ pc' = "done"
  /\ UNCHANGED <<inputs, run, venue_cache, locals, ret, fetch, start, ics>>

\* parse_league_group returns
ParseLeagueGroup ==
  /\ Returned("parse_league_group")
  /\ parsed_leagues' = ParsedLeagues(resp, league_groups[gi].value)
  /\ li' = 1
  /\ pc' = "for_league"
  /\ logged' = << >>
  /\ ResetFetch
  /\ UNCHANGED <<inputs, run, store, venue_cache, league_groups, gi, lg_id, league_id,
                 fixtures, venue_dict, venue_id, fi, home_tid, away_tid, ret, start, ics>>

\* for league_info in parsed_leagues: league_id = get_or_create_league(...);
\* extract_fixtures_from_league(league_url), up to its safe_get
ProcessLeague ==
  /\ pc = "for_league"
  /\ li <= Len(parsed_leagues)
  /\ LET league_info == parsed_leagues[li]
         r == get_or_create_league(store, lg_id, league_info.name, league_info.url)
     IN IF r.raised
        THEN /\ Raise(r.st)
             /\ ret' = NULL
             /\ logged' = <<Log("info", "league")>>
        ELSE /\ store' = r.st
             /\ league_id' = r.ret
             /\ ret' = r.ret
             /\ logged' = <<Log("info", "league")>>
             /\ Call("extract_fixtures_from_league", FullUrl(league_info.url))
             /\ UNCHANGED <<venue_cache, league_groups, gi, lg_id, parsed_leagues, li,
                            fixtures, venue_dict, venue_id, fi, home_tid, away_tid>>
  /\ UNCHANGED <<inputs, run, start, ics>>

\* the loop over parsed_leagues is over: the next league group
EndGroup ==
  /\ pc = "for_league"
  /\ li > Len(parsed_leagues)
  /\ gi' = gi + 1
  /\ pc' = "for_group"
  /\ logged' = << >>
  /\ UNCHANGED <<inputs, run, store, venue_cache, league_groups, lg_id, parsed_leagues,
                 li, league_id, fixtures, venue_dict, venue_id, fi, home_tid, away_tid,
                 ret, fetch, start, ics>>


\* the league page the crawl is at
LeaguePage == site.page_of[parsed_leagues[li].url]

\* extract_fixtures_from_league with a response: the venue link is read and,
\* unless its url is in _venue_cache, fetch_venue_address runs up to its safe_get
ReadLeaguePage ==
  LET venue_link == LeaguePage.venue_link
  IN IF venue_link.url = None
     THEN /\ venue_dict' = UnknownVenue
          /\ fixtures' = PageFixtures(LeaguePage)
          /\ pc' = "venue"
          /\ ResetFetch
     ELSE IF venue_cache[venue_link.url] # None
     THEN /\ venue_dict' = [name |-> venue_link.name, url |-> venue_link.url,
                            address |-> venue_cache[venue_link.url]]
          /\ fixtures' = PageFixtures(LeaguePage)
          /\ pc' = "venue"
          /\ ResetFetch
     ELSE /\ venue_dict' = [name |-> venue_link.name, url |-> venue_link.url,
                            address |-> None]
          /\ fixtures' = << >>
          /\ Call("fetch_venue_address", FullUrl(venue_link.url))

\* mutant: no "if not resp" guard, so resp.text raises on None
ExtractFixturesUnguarded ==
  /\ Returned("extract_fixtures_from_league")
  /\ logged' = << >>
  /\ ret' = ret
  /\ IF resp = None
     THEN Raise(store)
     ELSE /\ ReadLeaguePage
          /\ UNCHANGED <<store, venue_cache, league_groups, gi, lg_id, parsed_leagues,
                         li, league_id, venue_id, fi, home_tid, away_tid>>
  /\ UNCHANGED <<inputs, run, start, ics>>

\* extract_fixtures_from_league after its safe_get: no response gives no fixture
\* and the sentinel venue
ExtractFixturesFromLeague ==
  /\ Returned("extract_fixtures_from_league")
  /\ logged' = << >>
  /\ IF resp = None
     THEN /\ fixtures' = << >>
          /\ venue_dict' = UnknownVenue
          /\ pc' = "venue"
          /\ ResetFetch
     ELSE ReadLeaguePage
  /\ UNCHANGED <<inputs, run, store, venue_cache, league_groups, gi, lg_id,
                 parsed_leagues, li, league_id, venue_id, fi, home_tid, away_tid,
                 ret, start, ics>>

\* mutant: the default address of a failed fetch is returned without being cached
FetchVenueAddressUncachedFailure ==
  /\ Returned("fetch_venue_address")
  /\ LET address == IF resp = None THEN DEFAULT_EVENT_LOCATION
                    ELSE AddressText(site.venue_page[venue_dict.url])
     IN /\ venue_cache' = IF resp = None THEN venue_cache
                          ELSE [venue_cache EXCEPT ![venue_dict.url] = address]
        /\ venue_dict' = [venue_dict EXCEPT !.address = address]
  /\ fixtures' = PageFixtures(LeaguePage)
  /\ pc' = "venue"
  /\ logged' = << >>
  /\ ResetFetch
  /\ UNCHANGED <<inputs, run, store, league_groups, gi, lg_id, parsed_leagues, li,
                 league_id, venue_id, fi, home_tid, away_tid, ret, start, ics>>

\* fetch_venue_address after its safe_get: every path stores the address it
\* returns in _venue_cache; extract_fixtures_from_league then reads the rows
FetchVenueAddress ==
  /\ Returned("fetch_venue_address")
  /\ LET address == IF resp = None THEN DEFAULT_EVENT_LOCATION
                    ELSE AddressText(site.venue_page[venue_dict.url])
     IN /\ venue_cache' = [venue_cache EXCEPT ![venue_dict.url] = address]
        /\ venue_dict' = [venue_dict EXCEPT !.address = address]
  /\ fixtures' = PageFixtures(LeaguePage)
  /\ pc' = "venue"
  /\ logged' = << >>
  /\ ResetFetch
  /\ UNCHANGED <<inputs, run, store, league_groups, gi, lg_id, parsed_leagues, li,
                 league_id, venue_id, fi, home_tid, away_tid, ret, start, ics>>

\* venue_id = get_or_create_venue(conn, venue_dict)
GetOrCreateVenue ==
  /\ pc = "venue"
  /\ LET r == get_or_create_venue(store, venue_dict)
     IN /\ store' = r.st
        /\ venue_id' = r.ret
        /\ ret' = r.ret
  /\ fi' = 1
  /\ pc' = "for_fixture"
  /\ logged' = << >>
  /\ UNCHANGED <<inputs, run, venue_cache, league_groups, gi, lg_id, parsed_leagues, li,
                 league_id, fixtures, venue_dict, home_tid, away_tid, fetch, start, ics>>

\* for fx in fixtures: home_tid = get_or_create_team(conn, fx["home_name"])
HomeTeam ==
  /\ pc = "for_fixture"
  /\ fi <= Len(fixtures)
  /\ LET r == get_or_create_team(store, fixtures[fi].home_name)
     IN IF r.raised
        THEN Raise(r.st) /\ ret' = NULL
        ELSE /\ store' = r.st
             /\ home_tid' = r.ret
             /\ ret' = r.ret
             /\ pc' = "away_team"
             /\ UNCHANGED <<venue_cache, league_groups, gi, lg_id, parsed_leagues, li,
                            league_id, fixtures, venue_dict, venue_id, fi, away_tid, fetch>>
  /\ logged' = << >>
  /\ UNCHANGED <<inputs, run, start, ics>>

\* away_tid = get_or_create_team(conn, fx["away_name"])
AwayTeam ==
  /\ pc = "away_team"
  /\ LET r == get_or_create_team(store, fixtures[fi].away_name)
     IN IF r.raised
        THEN Raise(r.st) /\ ret' = NULL
        ELSE /\ store' = r.st
             /\ away_tid' = r.ret
             /\ ret' = r.ret
             /\ pc' = "insert_fixture"
             /\ UNCHANGED <<venue_cache, league_groups, gi, lg_id, parsed_leagues, li,
                            league_id, fixtures, venue_dict, venue_id, fi, home_tid, fetch>>
  /\ logged' = << >>
  /\ UNCHANGED <<inputs, run, start, ics>>

\* mutant: insert_fixture is called only for a fixture without result
InsertFixtureUnplayed ==
  /\ pc = "insert_fixture"
  /\ LET fx == fixtures[fi]
         dt_utc == isoformat(astimezone_utc(fx.dt))
         r == IF fx.result # None THEN [st |-> store, ret |-> NULL]
              ELSE insert_fixture(store, league_id, venue_id, home_tid, away_tid, dt_utc,
                                  fx.result)
     IN /\ store' = r.st
        /\ ret' = r.ret
  /\ fi' = fi + 1
  /\ pc' = "for_fixture"
  /\ logged' = << >>
  /\ UNCHANGED <<inputs, run, venue_cache, league_groups, gi, lg_id, parsed_leagues, li,
                 league_id, fixtures, venue_dict, venue_id, home_tid, away_tid, fetch,
                 start, ics>>

\* dt_utc = fx["dt"].astimezone(UTC).isoformat(); insert_fixture(...)
InsertFixture ==
  /\ pc = "insert_fixture"
  /\ LET fx == fixtures[fi]
         dt_utc == isoformat(astimezone_utc(fx.dt))
         r == insert_fixture(store, league_id, venue_id, home_tid, away_tid, dt_utc,
                             fx.result)
     IN /\ store' = r.st
        /\ ret' = r.ret
  /\ fi' = fi + 1
  /\ pc' = "for_fixture"
  /\ logged' = << >>
  /\ UNCHANGED <<inputs, run, venue_cache, league_groups, gi, lg_id, parsed_leagues, li,
                 league_id, fixtures, venue_dict, venue_id, home_tid, away_tid, fetch,
                 start, ics>>

\* mutant: the sleep is inside "if fixtures:"
ThrottleIfFixtures ==
  /\ pc = "for_fixture"
  /\ fi > Len(fixtures)
  /\ li' = li + 1
  /\ pc' = "for_league"
  /\ logged' = IF fixtures = << >> THEN << >> ELSE <<Log("sleep", "0.5")>>
  /\ UNCHANGED <<inputs, run, store, venue_cache, league_groups, gi, lg_id,
                 parsed_leagues, league_id, fixtures, venue_dict, venue_id, fi,
                 home_tid, away_tid, ret, fetch, start, ics>>

\* the loop over fixtures is over: time.sleep(0.5), then the next league
Throttle ==
  /\ pc = "for_fixture"
  /\ fi > Len(fixtures)
  /\ li' = li + 1
  /\ pc' = "for_league"
  /\ logged' = <<Log("sleep", "0.5")>>
  /\ UNCHANGED <<inputs, run, store, venue_cache, league_groups, gi, lg_id,
                 parsed_leagues, league_id, fixtures, venue_dict, venue_id, fi,
                 home_tid, away_tid, ret, fetch, start, ics>>

Running == pc \notin {"idle", "done", "crashed", "killed"}

\* the process is killed while the crawl runs
Kill ==
  /\ Running
  /\ ProcessExit(store, "killed")
  /\ ret' = NULL
  /\ logged' = << >>
  /\ UNCHANGED <<inputs, run, start, ics>>

(***************************************************************************)
(* The calendars: _build_ics, build_league_ics, build_team_ics, main.      *)
(* A calendar's events are kept in the order of the cal.events.add calls;  *)
(* writing them to the file is the ics library's part.                     *)
(***************************************************************************)
\* datetime.fromisoformat(dt_iso): the UTC datetime of the text
fromisoformat(dt_iso) == [date |-> dt_iso[1], time |-> dt_iso[2]]

\* .astimezone(TIME_ZONE) of a UTC datetime: Europe/London's date, time and offset
astimezone_london(dt) ==
  LET m    == dt.time + 60
      bst  == IF m >= 1440 THEN [date |-> dt.date + 1, time |-> m - 1440]
              ELSE [date |-> dt.date, time |-> m]
  IN IF utcoffset(bst) = 60
     THEN [date |-> bst.date, time |-> bst.time, utcoffset |-> 60]
     ELSE [date |-> dt.date, time |-> dt.time, utcoffset |-> 0]

\* bool(x) of a str | None
Truthy(x) == x # None /\ x # ""

\* the fixtures the inner JOINs on team keep
Joined(db) ==
  {i \in Ids(db.fixture) : /\ db.fixture[i].home_team_id \in Ids(db.team)
                           /\ db.fixture[i].away_team_id \in Ids(db.team)}

\* one row of the builders' SELECT: (fid, h_id, h_name, a_id, a_name, dt_utc,
\* result, COALESCE(v.address, ?)) with LEFT JOIN venue
QueryRow(db, i) ==
  LET f == db.fixture[i]
  IN [fid |-> i,
      h_id |-> f.home_team_id, h_name |-> db.team[f.home_team_id].name,
      a_id |-> f.away_team_id, a_name |-> db.team[f.away_team_id].name,
      dt_iso |-> f.dt_utc, result |-> f.result,
      venue_addr |-> IF f.venue_id \in Ids(db.venue)
                        /\ db.venue[f.venue_id].address # None
                     THEN db.venue[f.venue_id].address
                     ELSE DEFAULT_EVENT_LOCATION]

\* dt_utc texts compared as SQLite compares TEXT (all end in +00:00)
TextLeq(a, b) == a[1] < b[1] \/ (a[1] = b[1] /\ a[2] <= b[2])

\* mutant: ORDER BY f.id
OrderById(db, ids) ==
  LET RECURSIVE ById(_)
      ById(rest) == IF rest = {} THEN << >>
                    ELSE <<Min(rest)>> \o ById(rest \ {Min(rest)})
  IN {ById(ids)}

\* ORDER BY f.dt_utc ASC: the orders fetchall() can return the selected fixtures
\* in; SQL leaves the order of rows with one dt_utc open
OrderByDtUtc(db, ids) ==
  LET RECURSIVE Ascending(_)
      Ascending(rest) ==
        IF rest = {} THEN {<< >>}
        ELSE UNION {{<<i>> \o q : q \in Ascending(rest \ {i})} :
                      i \in {m \in rest : \A o \in rest :
                               TextLeq(db.fixture[m].dt_utc, db.fixture[o].dt_utc)}}
  IN Ascending(ids)

\* mutant: the opponent is taken from the side the team is on
SameSideNamer(team_id, team_name, r) ==
  [name |-> team_name \o <<" ", "v", "s", " ">>
              \o (IF r.h_id = team_id THEN r.h_name ELSE r.a_name),
   desc |-> IF Truthy(r.result) THEN "Result: " \o r.result ELSE None]

\* build_team_ics's event_namer
TeamEventNamer(team_id, team_name, r) ==
  [name |-> team_name \o <<" ", "v", "s", " ">>
              \o (IF r.h_id = team_id THEN r.a_name ELSE r.h_name),
   desc |-> IF Truthy(r.result) THEN "Result: " \o r.result ELSE None]

\* build_league_ics's event_namer
LeagueEventNamer(r) ==
  [name |-> r.h_name \o <<" ", "v", "s", " ">> \o r.a_name,
   desc |-> IF Truthy(r.result) THEN "Result: " \o r.result ELSE None]

\* the Event of _build_ics's loop body, from a row and what event_namer gave;
\* e.description is set only if desc
IcsEvent(r, named) ==
  [name |-> named.name,
   begin |-> astimezone_london(fromisoformat(r.dt_iso)),
   duration |-> 60,
   location |-> IF Truthy(r.venue_addr) THEN r.venue_addr ELSE DEFAULT_EVENT_LOCATION,
   description |-> IF Truthy(named.desc) THEN named.desc ELSE None]

\* _build_ics, given the rows fetched and each row's event_namer(row)
_build_ics(rows, creator_text, named) ==
  IF rows = << >> THEN NoCalendar
  ELSE [written |-> TRUE, creator |-> creator_text,
        events |-> [k \in 1..Len(rows) |-> IcsEvent(rows[k], named[k])]]

\* build_team_ics(conn, team_slug, output_path): what a call can leave
build_team_ics(db, team_slug) ==
  LET team_id == SelectIdBySlug(db.team, team_slug)
  IN IF team_id = NULL
     THEN {[kind |-> "team", slug |-> team_slug, rows |-> << >>, cal |-> NoCalendar]}
     ELSE LET team_name == db.team[team_id].name
              ids == {i \in Joined(db) : \/ db.fixture[i].home_team_id = team_id
                                         \/ db.fixture[i].away_team_id = team_id}
          IN {LET rows == [k \in 1..Len(q) |-> QueryRow(db, q[k])]
              IN [kind |-> "team", slug |-> team_slug, rows |-> rows,
                  cal |-> _build_ics(rows,
                            <<"-//Fixtures for team ", team_name, "//EN">>,
                            [k \in 1..Len(q) |->
                               TeamEventNamer(team_id, team_name, rows[k])])] :
              q \in OrderByDtUtc(db, ids)}

\* build_league_ics(conn, league_slug, output_path): what a call can leave
build_league_ics(db, league_slug) ==
  LET league_id_ == SelectIdBySlug(db.league, league_slug)
  IN IF league_id_ = NULL \/ db.league[league_id_].league_group_id \notin Ids(db.league_group)
     THEN {[kind |-> "league", slug |-> league_slug, rows |-> << >>, cal |-> NoCalendar]}
     ELSE LET group_name == db.league_group[db.league[league_id_].league_group_id].name
              ids == {i \in Joined(db) : db.fixture[i].league_id = league_id_}
          IN {LET rows == [k \in 1..Len(q) |-> QueryRow(db, q[k])]
              IN [kind |-> "league", slug |-> league_slug, rows |-> rows,
                  cal |-> _build_ics(rows,
                            <<"-//Fixtures for ", group_name, " -> ", league_slug, "//EN">>,
                            [k \in 1..Len(q) |-> LeagueEventNamer(rows[k])])] :
              q \in OrderByDtUtc(db, ids)}

\* main(), after crawl_and_populate_db: build_team_ics for a slug of
\* "SELECT slug FROM team", on a new connection to the database file
BuildTeamIcs ==
  /\ pc = "done"
  /\ \E i \in Ids(store.disk.team) :
       ics' \in build_team_ics(store.disk, store.disk.team[i].slug)
  /\ logged' = <<Log("info", IF ics'.cal.written THEN "Wrote ICS" ELSE "No data for ICS")>>
  /\ UNCHANGED <<inputs, run, pc, store, venue_cache, locals, ret, fetch, start>>

\* the slugs build_league_ics is called with
LeagueSlugs == {slugify(lg.name) : lg \in LeaguePool}

\* build_league_ics for a league slug, stored or not
BuildLeagueIcs ==
  /\ pc = "done"
  /\ \E league_slug \in LeagueSlugs :
       ics' \in build_league_ics(store.disk, league_slug)
  /\ logged' = <<IF SelectIdBySlug(store.disk.league, ics'.slug) = NULL
                 THEN Log("warning", "No league found")
                 ELSE Log("info", IF ics'.cal.written THEN "Wrote ICS"
                                  ELSE "No data for ICS")>>
  /\ UNCHANGED <<inputs, run, pc, store, venue_cache, locals, ret, fetch, start>>

Next ==
  \/ StartCrawl
  \/ HttpGet
  \/ Backoff
  \/ GiveUp
  \/ FetchLeagueNamesAndUrls
  \/ ProcessGroup
  \/ Finish
  \/ ParseLeagueGroup
  \/ ProcessLeague
  \/ EndGroup
  \/ ExtractFixturesFromLeague
  \/ FetchVenueAddress
  \/ GetOrCreateVenue
  \/ HomeTeam
  \/ AwayTeam
  \/ InsertFixture
  \/ Throttle
  \/ Kill
  \/ BuildTeamIcs
  \/ BuildLeagueIcs

Spec == Init /\ [][Next]_vars


(***************************************************************************)
(* Properties.                                                             *)
(***************************************************************************)
RowCounts(tables) == [n \in DOMAIN tables |-> Len(tables[n])]

FixtureKey(row) == <<row.league_id, row.home_team_id, row.away_team_id, row.dt_utc>>

UniqueFixtureKeys(table) ==
  \A i, j \in Ids(table) : FixtureKey(table[i]) = FixtureKey(table[j]) => i = j

\* the row the crawl hands to insert_fixture for the fixture record fx
CrawlRow(fx) ==
  [league_id |-> league_id, venue_id |-> venue_id, home_team_id |-> home_tid,
   away_team_id |-> away_tid, dt_utc |-> isoformat(astimezone_utc(fx.dt)),
   result |-> fx.result]

\* C1: Idempotent re-crawl.  A crawl run that starts from the store a completed
\* run left, over the same site with the same urls down, never changes the
\* number of rows of any table (a second or later run starts only when the run
\* before it has completed).
C1_IdempotentRecrawl ==
  run >= 2 =>
    /\ RowCounts(store.conn) = RowCounts(start)
    /\ RowCounts(store.disk) = RowCounts(start)

\* a second run has completed over a store that holds leagues, a venue, teams
\* and fixtures
C1_Witness ==
  /\ run = 2 /\ pc = "done"
  /\ Len(store.disk.league_group) >= 2 /\ Len(store.disk.league) >= 2
  /\ Len(store.disk.venue) >= 1 /\ Len(store.disk.team) >= 2
  /\ Len(store.disk.fixture) >= 2

\* C2: Fixture uniqueness.  In every reachable state no two fixture rows, read
\* through the connection or committed, agree on (league_id, home_team_id,
\* away_team_id, dt_utc).
C2_FixtureUnique ==
  /\ UniqueFixtureKeys(store.conn.fixture)
  /\ UniqueFixtureKeys(store.disk.fixture)

\* two records with the same four fields have been inserted, the second was
\* refused, and exactly one row is stored
C2_Witness ==
  /\ pc = "for_fixture" /\ fi = 3 /\ ret = NULL
  /\ FixtureKey(CrawlRow(fixtures[1])) = FixtureKey(CrawlRow(fixtures[2]))
  /\ Len(store.disk.fixture) = 1

\* C3: insert_fixture with the ids of stored league and team rows.  If no stored
\* fixture has the same (league, home, away, kickoff), the step appends exactly
\* that row, commits it and returns its id; otherwise it returns None and
\* leaves the connection's tables and the committed tables as they were.
C3_InsertFixture ==
  [][(/\ pc = "insert_fixture" /\ pc' = "for_fixture"
      /\ league_id \in Ids(store.conn.league)
      /\ home_tid \in Ids(store.conn.team)
      /\ away_tid \in Ids(store.conn.team))
     => LET row == CrawlRow(fixtures[fi])
            dup == \E i \in Ids(store.conn.fixture) :
                     FixtureKey(store.conn.fixture[i]) = FixtureKey(row)
        IN IF dup
           THEN ret' = NULL /\ store' = store
           ELSE /\ ret' = Len(store.conn.fixture) + 1
                /\ store'.conn = [store.conn EXCEPT !.fixture = Append(@, row)]
                /\ store'.disk = store'.conn]_vars

\* insert_fixture has returned None for a record whose key is stored with
\* another result and another venue, after an insert that added a row
C3_Witness ==
  /\ pc = "for_fixture" /\ fi > 1 /\ ret = NULL
  /\ Len(store.conn.fixture) >= 2
  /\ \E i \in Ids(store.conn.fixture) :
       /\ FixtureKey(store.conn.fixture[i]) = FixtureKey(CrawlRow(fixtures[fi - 1]))
       /\ store.conn.fixture[i].result # fixtures[fi - 1].result
       /\ store.conn.fixture[i].venue_id # venue_id


\* C4: The crawl run as one atomic transaction.  While a run is under way, and
\* after it was killed or left by an exception, the committed tables are those
\* the run started from: nothing the run wrote is durable before its end.
C4_AtomicRun == pc \notin {"idle", "done"} => store.disk = start

(***************************************************************************)
(* safe_get's events.                                                      *)
(***************************************************************************)
EventsOf(ev) == SelectSeq(events, LAMBDA e : e.ev = ev)

FailedGets == SelectSeq(events, LAMBDA e : e.ev = "GET" /\ e.what # "200")

\* C5: safe_get's attempts.  A call makes at most 3 GETs, numbered 1, 2, 3, all
\* of its url; a successful GET is the last thing the call does and its
\* response is what the call returns; the call returns None if and only if it
\* made 3 GETs and each failed with a network error or an error status.
C5_SafeGetAttempts ==
  LET gets == EventsOf("GET")
  IN /\ Len(gets) <= 3
     /\ \A i \in 1..Len(gets) : gets[i].n = i /\ gets[i].url = full_url
     /\ \A i \in 1..Len(events) :
          (events[i].ev = "GET" /\ events[i].what = "200") => i = Len(events)
     /\ pc = "returned" =>
          /\ resp # None =>
               /\ resp = "Response"
               /\ events[Len(events)].ev = "GET" /\ events[Len(events)].what = "200"
          /\ resp = None <=>
               /\ Len(gets) = 3
               /\ \A i \in 1..3 : gets[i].what \in {"ConnectionError", "HTTPError"}

\* a call has returned None after three failed GETs, of both kinds
C5_Witness ==
  /\ pc = "returned" /\ resp = None
  /\ Len(EventsOf("GET")) = 3
  /\ \E i, j \in 1..3 : /\ EventsOf("GET")[i].what = "ConnectionError"
                        /\ EventsOf("GET")[j].what = "HTTPError"

\* C6 as claimed: every backoff delay is followed by another attempt at the
\* same url, the delay after the k-th failed attempt is 2^(k-1) seconds, and no
\* delay is taken after the final attempt of a call.
C6_DelaysBetweenAttempts ==
  /\ \A i \in 1..Len(events) :
       events[i].ev = "sleep" =>
         /\ i >= 3 /\ events[i - 2].ev = "GET"
         /\ events[i].n = 2 ^ (events[i - 2].n - 1)
         /\ i < Len(events) =>
              events[i + 1].ev = "GET" /\ events[i + 1].url = events[i - 2].url
  /\ pc \in {"giveup", "returned"} => (events = << >> \/ events[Len(events)].ev # "sleep")

\* C6, amended: every failed attempt k is followed by its warning and by a delay
\* of 2^(k-1) seconds (1, 2, 4); after the first and second failed attempts the
\* delay is followed by the next attempt at the same url; after the third the
\* delay is followed by the error record and the return of None, with no
\* further attempt.  No delay follows a successful attempt.
C6_BackoffDelays ==
  /\ \A i \in 1..Len(events) :
       events[i].ev = "sleep" =>
         /\ i >= 3
         /\ events[i - 2].ev = "GET" /\ events[i - 2].what # "200"
         /\ events[i - 1].ev = "warning" /\ events[i - 1].n = events[i - 2].n
         /\ events[i].n = 2 ^ (events[i - 2].n - 1)
         /\ i < Len(events) =>
              IF events[i - 2].n < 3
              THEN /\ events[i + 1].ev = "GET"
                   /\ events[i + 1].n = events[i - 2].n + 1
                   /\ events[i + 1].url = events[i - 2].url
              ELSE events[i + 1].ev = "error" /\ i + 1 = Len(events)
  /\ \A i \in 1..Len(events) :
       (events[i].ev = "GET" /\ events[i].what # "200") =>
         /\ i + 1 <= Len(events)
         /\ pc # "backoff" => (i + 2 <= Len(events) /\ events[i + 2].ev = "sleep")
  /\ pc = "returned" /\ resp = None =>
       {e.n : e \in {events[i] : i \in {j \in 1..Len(events) : events[j].ev = "sleep"}}}
         = {1, 2, 4}

\* a call gives up right after the 4 s delay that follows its third attempt
C6_Witness ==
  /\ pc = "giveup"
  /\ events[Len(events)].ev = "sleep" /\ events[Len(events)].n = 4
  /\ events[Len(events) - 2].ev = "GET" /\ events[Len(events) - 2].n = 3

\* C7: Retry event accounting.  When a call returns, it has recorded one
\* warning per failed attempt; after two failures and a success it returns the
\* response with exactly two warnings and no error record; after three failures
\* it returns None with exactly one error record; and an error record is there,
\* once, exactly when the call returns None.
C7_RetryEvents ==
  LET warnings == Len(EventsOf("warning"))
      errors   == Len(EventsOf("error"))
      failed   == Len(FailedGets)
  IN /\ errors <= 1
     /\ errors = 1 => pc = "returned"
     /\ pc = "returned" =>
          /\ warnings = failed
          /\ (failed = 2 /\ Len(EventsOf("GET")) = 3) =>
               resp = "Response" /\ warnings = 2 /\ errors = 0
          /\ failed = 3 => resp = None /\ errors = 1
          /\ errors = 1 <=> resp = None

\* a call has returned the response of its third attempt after two warnings
C7_Witness ==
  /\ pc = "returned" /\ resp = "Response"
  /\ Len(EventsOf("GET")) = 3
  /\ Len(EventsOf("warning")) = 2 /\ Len(EventsOf("error")) = 0

(***************************************************************************)
(* What the site offers a crawl, by the urls that are down.                *)
(***************************************************************************)
\* a fixture record is stored under the league and the teams its names resolve to
Persisted(lg, fx) ==
  LET lid == SelectIdBySlug(store.disk.league, slugify(lg.name))
      hid == SelectIdBySlug(store.disk.team, slugify(fx.home_name))
      aid == SelectIdBySlug(store.disk.team, slugify(fx.away_name))
  IN /\ lid # NULL /\ hid # NULL /\ aid # NULL
     /\ \E i \in Ids(store.disk.fixture) :
          FixtureKey(store.disk.fixture[i])
            = <<lid, hid, aid, isoformat(astimezone_utc(fx.dt))>>

\* every fixture of a league whose page can be fetched is stored
LeaguePersisted(lg) ==
  FullUrl(lg.url) \notin site.down =>
    \A k \in 1..Len(PageFixtures(site.page_of[lg.url])) :
      Persisted(lg, PageFixtures(site.page_of[lg.url])[k])

\* the leagues of a group whose page can be fetched
ReachableLeagues(group) ==
  IF FullUrl(group.value) \in site.down THEN << >> ELSE site.leagues_of[group.value]

\* C8: Partial-failure tolerance.  The step a caller takes on a None from
\* safe_get (unless the process is killed) raises nothing, writes nothing and
\* goes on with no data for that url: no league group, no league of the group,
\* no fixture and the Unknown venue for the league, or the default address for
\* the venue with the league's fixtures kept.  And at every point of a run,
\* every league the run has gone past whose own pages could be fetched has all
\* its fixtures stored, whatever other urls were down; a completed run has gone
\* past every league of every group it took.
C8_PartialFailure ==
  /\ [][(pc = "returned" /\ resp = None /\ pc' # "killed") =>
          /\ pc' # "crashed"
          /\ store' = store /\ run' = run
          /\ CASE caller = "fetch_league_names_and_urls" ->
                    league_groups' = << >> /\ gi' = 1 /\ pc' = "for_group"
               [] caller = "parse_league_group" ->
                    /\ parsed_leagues' = << >> /\ li' = 1 /\ pc' = "for_league"
                    /\ league_groups' = league_groups /\ gi' = gi
               [] caller = "extract_fixtures_from_league" ->
                    /\ fixtures' = << >> /\ venue_dict' = UnknownVenue /\ pc' = "venue"
                    /\ parsed_leagues' = parsed_leagues /\ li' = li /\ gi' = gi
               [] caller = "fetch_venue_address" ->
                    /\ venue_dict'.address = DEFAULT_EVENT_LOCATION /\ pc' = "venue"
                    /\ fixtures' = PageFixtures(LeaguePage)
                    /\ parsed_leagues' = parsed_leagues /\ li' = li /\ gi' = gi]_vars
  /\ [](/\ \A j \in 1..Len(parsed_leagues) :
             j < li => LeaguePersisted(parsed_leagues[j])
        /\ \A k \in 1..Len(league_groups) :
             k < gi => \A j \in 1..Len(ReachableLeagues(league_groups[k])) :
                         LeaguePersisted(ReachableLeagues(league_groups[k])[j])
        /\ pc = "done" => gi = Len(league_groups) + 1)

\* a run is complete in which the first league's page was down and a later
\* league's fixture is stored
C8_Witness ==
  /\ pc = "done" /\ run = 1
  /\ Len(league_groups) = 2
  /\ Len(ReachableLeagues(league_groups[1])) = 2
  /\ FullUrl(ReachableLeagues(league_groups[1])[1].url) \in site.down
  /\ FullUrl(ReachableLeagues(league_groups[1])[2].url) \notin site.down
  /\ PageFixtures(site.page_of[ReachableLeagues(league_groups[1])[2].url]) # << >>
  /\ Len(store.disk.fixture) >= 1

\* the team names of the site's rows
TeamNames == {row.home_name : row \in UpcomingPool \cup ResultsPool}
               \cup {row.away_name : row \in UpcomingPool \cup ResultsPool}

\* C9: Get-or-create is total and idempotent.  The crawl never ends on an
\* exception, and in every store state the crawl's get-or-create calls reach,
\* get_or_create_league_group, get_or_create_league and get_or_create_team,
\* called with any name and url, raise nothing and return the id of a stored
\* row with the slug of the name; called again with the same arguments they
\* return the same id and leave the tables as they are.
C9_GetOrCreateTotal ==
  /\ pc # "crashed"
  /\ \A g \in GroupPool :
       LET r == get_or_create_league_group(store, g.name)
       IN /\ ~r.raised
          /\ r.ret \in Ids(r.st.conn.league_group)
          /\ r.st.conn.league_group[r.ret].slug = slugify(g.name)
          /\ get_or_create_league_group(r.st, g.name) = r
  /\ \A name \in TeamNames :
       LET r == get_or_create_team(store, name)
       IN /\ ~r.raised
          /\ r.ret \in Ids(r.st.conn.team)
          /\ r.st.conn.team[r.ret].slug = slugify(name)
          /\ get_or_create_team(r.st, name) = r
  /\ \A lg \in LeaguePool : \A group_id \in Ids(store.conn.league_group) :
       LET r == get_or_create_league(store, group_id, lg.name, lg.url)
       IN /\ ~r.raised
          /\ r.ret \in Ids(r.st.conn.league)
          /\ r.st.conn.league[r.ret].slug = slugify(lg.name)
          /\ get_or_create_league(r.st, group_id, lg.name, lg.url) = r

\* C10: Distinct team references.  Every stored fixture's home_team_id and
\* away_team_id differ, in the connection's tables and in the committed ones.
C10_DistinctTeams ==
  /\ \A i \in Ids(store.conn.fixture) :
       store.conn.fixture[i].home_team_id # store.conn.fixture[i].away_team_id
  /\ \A i \in Ids(store.disk.fixture) :
       store.disk.fixture[i].home_team_id # store.disk.fixture[i].away_team_id

\* no two rows of a team table share a name or a slug
UniqueTeams(table) ==
  \A i, j \in Ids(table) :
    i # j => table[i].name # table[j].name /\ table[i].slug # table[j].slug

\* the team lookup of one side of a fixture: the id returned is the one row with
\* the name's slug, the row that was there before if there was one
ResolvesTeam(name, tid) ==
  LET old == SelectIdBySlug(store.conn.team, slugify(name))
  IN /\ tid \in Ids(store'.conn.team)
     /\ store'.conn.team[tid].slug = slugify(name)
     /\ \A i \in Ids(store'.conn.team) : store'.conn.team[i].slug = slugify(name) => i = tid
     /\ IF old # NULL
        THEN tid = old /\ store'.conn.team = store.conn.team
        ELSE store'.conn.team
               = Append(store.conn.team, [name |-> name, slug |-> slugify(name)])

\* C11: Teams are global.  The team table never holds two rows with one name or
\* one slug; every home or away name of a fixture, in whatever league, league
\* group and run, resolves to the one row with its slug, which is the row that
\* was there before when there was one; and the id a name resolves to in the
\* committed table never changes, across steps and across runs.
C11_TeamsGlobal ==
  /\ [](UniqueTeams(store.conn.team) /\ UniqueTeams(store.disk.team))
  /\ [][(pc = "for_fixture" /\ pc' = "away_team")
          => ResolvesTeam(fixtures[fi].home_name, home_tid')]_vars
  /\ [][(pc = "away_team" /\ pc' = "insert_fixture")
          => ResolvesTeam(fixtures[fi].away_name, away_tid')]_vars
  /\ [][\A name \in TeamNames :
          LET id == SelectIdBySlug(store.disk.team, slugify(name))
          IN id # NULL => SelectIdBySlug(store'.disk.team, slugify(name)) = id]_vars

\* in a second run, in the second league group, a home name has resolved to the
\* team row the first run stored, which fixtures of two leagues refer to
C11_Witness ==
  /\ run = 2 /\ pc = "away_team" /\ gi = 2
  /\ home_tid \in Ids(start.team)
  /\ start.team[home_tid].name = fixtures[fi].home_name
  /\ \E i, j \in Ids(start.fixture) :
       /\ start.fixture[i].league_id # start.fixture[j].league_id
       /\ start.fixture[i].home_team_id = home_tid
       /\ start.fixture[j].home_team_id = home_tid

\* the pairs of distinct names of a set that slugify maps to one slug
Colliding(names) ==
  {p \in names \X names : p[1] # p[2] /\ slugify(p[1]) = slugify(p[2])}

CollidingGroupNames == Colliding({g.name : g \in GroupPool})

CollidingTeamNames == Colliding(TeamNames)

\* the slugs of the colliding names
SlugsOfNames ==
  /\ slugify(<<"G", "-", "W">>) = <<"g", "_", "w">>
  /\ slugify(<<"g", " ", "w">>) = <<"g", "_", "w">>
  /\ slugify(<<"x", ".">>) = <<"x">> /\ slugify(<<"X">>) = <<"x">>

\* One name (call a), then the other (b) and the first again (c), submitted to
\* a get-or-create that keeps its rows in tables[t]: one id, one row with the
\* slug, the tables left as the first call left them (so that any further call
\* is one of these again), and the row's name is the one stored first.
OneEntity(t, a, b, c, first, slug) ==
  LET rows == a.st.conn[t]
      old  == SelectIdBySlug(store.conn[t], slug)
  IN /\ ~a.raised /\ ~b.raised /\ ~c.raised
     /\ a.ret \in Ids(rows)
     /\ b.ret = a.ret /\ c.ret = a.ret
     /\ b.st = a.st /\ c.st = a.st
     /\ Cardinality({i \in Ids(rows) : rows[i].slug = slug}) = 1
     /\ rows[a.ret].name = (IF old # NULL THEN store.conn[t][old].name ELSE first)

\* C12: Slug collision.  "G-W" and "g w" have the slug "g_w", and "X" and "x."
\* the slug "x".  In every store the crawl reaches (the store changes only
\* between two safe_get calls, when no GET of a call is recorded), submitting
\* one of two distinct names with one slug and then the other, or the first
\* again, to get_or_create_league_group or to get_or_create_team returns one id
\* every time, leaves one row with that slug, changes nothing after the first
\* call, and the row keeps the name that was stored first.
C12_SlugCollision ==
  /\ SlugsOfNames
  /\ events = << >> =>
       /\ \A p \in CollidingGroupNames :
            LET a == get_or_create_league_group(store, p[1])
            IN OneEntity("league_group", a, get_or_create_league_group(a.st, p[2]),
                         get_or_create_league_group(a.st, p[1]), p[1], slugify(p[1]))
       /\ \A p \in CollidingTeamNames :
            LET a == get_or_create_team(store, p[1])
            IN OneEntity("team", a, get_or_create_team(a.st, p[2]),
                         get_or_create_team(a.st, p[1]), p[1], slugify(p[1]))

\* the crawl has submitted a second league-group name with the slug of the
\* first: it got the first one's id, and the one row has the first name
C12_Witness ==
  /\ pc = "GET" /\ caller = "parse_league_group" /\ gi = 2 /\ lg_id = 1
  /\ league_groups[1].name # league_groups[2].name
  /\ slugify(league_groups[1].name) = slugify(league_groups[2].name)
  /\ Len(store.disk.league_group) = 1
  /\ store.disk.league_group[1].name = league_groups[1].name
  /\ CollidingTeamNames # {}

\* every row of the tables before is a row of the tables after, under the same
\* id and with the same fields
RowsKept(before, after) ==
  \A t \in DOMAIN before :
    \A i \in Ids(before[t]) : i \in Ids(after[t]) /\ after[t][i] = before[t][i]

\* C13: The crawler only adds rows.  Across every step (of a run, of a rerun,
\* a kill or an exception included), every row of every table is still there
\* after the step, under its id and with every field as it was, in the
\* connection's tables and in the committed ones.
C13_AddOnly ==
  [][RowsKept(store.conn, store'.conn) /\ RowsKept(store.disk, store'.disk)]_vars

\* in a second run, a fixture whose key is stored was refused, in a league that
\* is stored under another league group than the one now listing it
C13_Witness ==
  /\ run = 2 /\ pc = "for_fixture" /\ fi > 1 /\ ret = NULL
  /\ league_id \in Ids(store.disk.league)
  /\ store.disk.league[league_id].league_group_id # lg_id
  /\ store.disk = start

\* C14: Venue address cache.  A safe_get call of fetch_venue_address starts only
\* for a venue url that has no cached address, and it is for that url; when the
\* call has returned, whatever its outcome, the url has a cached address, the
\* one the lookup returns, which is the default location when the fetch failed
\* or the page has no address; an url's cached address stays what it is until
\* the run is over; and a lookup of a cached url returns the cached address
\* with no fetch.  So a run makes at most one safe_get call per venue url.
C14_VenueCache ==
  /\ [][(caller' = "fetch_venue_address" /\ caller # "fetch_venue_address") =>
          /\ venue_dict'.url \in VenueUrls
          /\ venue_cache[venue_dict'.url] = None
          /\ full_url' = FullUrl(venue_dict'.url)
          /\ venue_cache' = venue_cache]_vars
  /\ [][(pc = "returned" /\ caller = "fetch_venue_address" /\ pc' = "venue") =>
          LET url  == venue_dict.url
              page == site.venue_page[url]
          IN /\ venue_cache'[url] # None
             /\ venue_dict'.address = venue_cache'[url]
             /\ venue_dict'.url = url
             /\ (resp = None \/ ~page.address_block \/ page.lines = << >>)
                  => venue_cache'[url] = DEFAULT_EVENT_LOCATION
             /\ \A u \in VenueUrls \ {url} : venue_cache'[u] = venue_cache[u]]_vars
  /\ [][(run' = run /\ pc' \notin {"killed", "crashed"}) =>
          \A u \in VenueUrls :
            venue_cache[u] # None => venue_cache'[u] = venue_cache[u]]_vars
  /\ [][(/\ pc = "returned" /\ caller = "extract_fixtures_from_league"
         /\ resp # None /\ pc' # "killed"
         /\ LeaguePage.venue_link.url # None
         /\ venue_cache[LeaguePage.venue_link.url] # None) =>
          /\ pc' = "venue" /\ caller' = None
          /\ venue_dict'.url = LeaguePage.venue_link.url
          /\ venue_dict'.address = venue_cache[LeaguePage.venue_link.url]
          /\ venue_cache' = venue_cache]_vars

\* in the second league group of a run, a venue whose url is down, and was
\* looked up for a league of the first group, has the default address
C14_Witness ==
  /\ run = 1 /\ pc = "venue" /\ gi = 2
  /\ venue_dict.url \in VenueUrls
  /\ FullUrl(venue_dict.url) \in site.down
  /\ \E j \in 1..Len(ReachableLeagues(league_groups[1])) :
       LET lg == ReachableLeagues(league_groups[1])[j]
       IN /\ FullUrl(lg.url) \notin site.down
          /\ site.page_of[lg.url].venue_link.url = venue_dict.url
  /\ venue_dict.address = DEFAULT_EVENT_LOCATION
  /\ venue_cache[venue_dict.url] = DEFAULT_EVENT_LOCATION

\* the league groups the top-level page offers a run, in the page's order
Discovered ==
  IF LEAGUE_PAGE_URL \in site.down \/ ~site.select THEN << >>
  ELSE SelectSeq(site.groups, LAMBDA opt : opt.value # "" /\ opt.value # "/find_league")

\* C15: The limit caps the crawl.  Once fetch_league_names_and_urls has
\* returned, the league groups the run processes are, for a limit n >= 0, the
\* first n discovered ones (all of them when fewer are discovered), and with
\* no limit all the discovered ones; the run has gone into at most that many.
C15_LimitCaps ==
  (pc \notin {"idle", "killed", "crashed"} /\ caller # "fetch_league_names_and_urls") =>
    /\ league_groups
         = (IF limit = NoLimit THEN Discovered
            ELSE SubSeq(Discovered, 1, Min({limit[1], Len(Discovered)})))
    /\ limit # NoLimit => Len(league_groups) <= limit[1]
    /\ gi <= Len(league_groups) + 1

(***************************************************************************)
(* The calendar last built, against the committed tables it was built from *)
(***************************************************************************)
\* the fixtures of the entity the last build was for
EntityFixtures ==
  LET db == store.disk
  IN IF ics.kind = "team"
     THEN {i \in Ids(db.fixture) :
             \/ db.fixture[i].home_team_id = SelectIdBySlug(db.team, ics.slug)
             \/ db.fixture[i].away_team_id = SelectIdBySlug(db.team, ics.slug)}
     ELSE {i \in Ids(db.fixture) :
             db.fixture[i].league_id = SelectIdBySlug(db.league, ics.slug)}

\* the instant of an event's begin, in minutes
Instant(begin) == begin.date * 1440 + begin.time - begin.utcoffset

\* C16: Artifact ordering.  The events of a calendar built by build_team_ics or
\* build_league_ics are the entity's fixtures, one event per fixture, each
\* beginning at its fixture's kickoff, and every event begins no later than the
\* event after it, whatever the order the fixtures were inserted in.
C16_AscendingKickoff ==
  ics.kind \in {"team", "league"} =>
    LET ev == ics.cal.events
    IN /\ Len(ev) = Len(ics.rows)
       /\ {ics.rows[k].fid : k \in 1..Len(ev)} = EntityFixtures
       /\ Len(ev) = Cardinality(EntityFixtures)
       /\ \A k \in 1..Len(ev) :
            LET dt_utc == store.disk.fixture[ics.rows[k].fid].dt_utc
            IN Instant(ev[k].begin) = dt_utc[1] * 1440 + dt_utc[2]
       /\ \A k \in 1..(Len(ev) - 1) : Instant(ev[k].begin) <= Instant(ev[k + 1].begin)

\* a team's calendar lists first a fixture that was inserted after the one it
\* lists second, and that begins before it
C16_Witness ==
  /\ ics.kind = "team" /\ Len(ics.cal.events) >= 2
  /\ ics.rows[1].fid > ics.rows[2].fid
  /\ Instant(ics.cal.events[1].begin) < Instant(ics.cal.events[2].begin)

\* C17: Team artifact content.  A calendar built by build_team_ics for a stored
\* team is written exactly when the team has a fixture; it has one event for
\* each stored fixture with the team at home or away, and none for another
\* fixture; each event is titled "{team} vs {opponent}", the opponent being the
\* team on the other side of the fixture; its description is "Result: {result}"
\* when the fixture has a result (a non-empty one) and is absent otherwise; its
\* location is the address of the fixture's venue, or the default location when
\* the fixture has no venue or the venue no address.
C17_TeamCalendar ==
  ics.kind = "team" =>
    LET db   == store.disk
        tid  == SelectIdBySlug(db.team, ics.slug)
        ev   == ics.cal.events
        mine == {i \in Ids(db.fixture) : \/ db.fixture[i].home_team_id = tid
                                         \/ db.fixture[i].away_team_id = tid}
    IN /\ tid # NULL
       /\ ics.cal.written <=> mine # {}
       /\ Len(ev) = Cardinality(mine) /\ Len(ics.rows) = Len(ev)
       /\ {ics.rows[k].fid : k \in 1..Len(ev)} = mine
       /\ \A k \in 1..Len(ev) :
            LET f   == db.fixture[ics.rows[k].fid]
                opp == IF f.home_team_id = tid THEN f.away_team_id ELSE f.home_team_id
            IN /\ ev[k].name = db.team[tid].name \o <<" ", "v", "s", " ">> \o db.team[opp].name
               /\ ev[k].description
                    = (IF f.result # None /\ f.result # "" THEN "Result: " \o f.result
                       ELSE None)
               /\ ev[k].location
                    = (IF /\ f.venue_id \in Ids(db.venue)
                          /\ db.venue[f.venue_id].address # None
                          /\ db.venue[f.venue_id].address # ""
                       THEN db.venue[f.venue_id].address
                       ELSE DEFAULT_EVENT_LOCATION)

\* the calendar of a team that is away in a fixture with a result, played at a
\* venue with an address of its own, while another fixture is not the team's
C17_Witness ==
  /\ ics.kind = "team" /\ ics.cal.written
  /\ Len(ics.cal.events) < Len(store.disk.fixture)
  /\ \E k \in 1..Len(ics.cal.events) :
       /\ ics.rows[k].a_id = SelectIdBySlug(store.disk.team, ics.slug)
       /\ ics.rows[k].h_id # ics.rows[k].a_id
       /\ ics.cal.events[k].description = "Result: 3-1"
       /\ ics.cal.events[k].location = "12 Park Rd"
       /\ ics.cal.events[k].name = <<"Z", " ", "v", "s", " ", "X">>

\* C18: End-to-end scenario.  After a crawl of the site with league group
\* "Accrington - Weds", its one league "Division A" at a venue whose address
\* resolves to "12 Park Rd", and the fixtures TeamX vs TeamY (2025-05-19 20:45
\* UTC, no result) and TeamX vs TeamZ (2025-05-12 20:45 UTC, result "3-1"), the
\* TeamX calendar is written with exactly two events in date order: first
\* "TeamX vs TeamZ" on 12 May with description "Result: 3-1", then "TeamX vs
\* TeamY" on 19 May with no description, both located at "12 Park Rd".
C18_EndToEnd ==
  (site = AccringtonSite /\ ics.kind = "team" /\ ics.slug = slugify(TeamX)) =>
    /\ ics.cal.written
    /\ {store.disk.fixture[i].dt_utc : i \in Ids(store.disk.fixture)}
         = {<<139, 1245>>, <<132, 1245>>}
    /\ ics.cal.events
         = << [name |-> TeamX \o <<" ", "v", "s", " ">> \o TeamZ,
               begin |-> [date |-> 132, time |-> 1305, utcoffset |-> 60],
               duration |-> 60,
               location |-> "12 Park Rd",
               description |-> "Result: 3-1"],
              [name |-> TeamX \o <<" ", "v", "s", " ">> \o TeamY,
               begin |-> [date |-> 139, time |-> 1305, utcoffset |-> 60],
               duration |-> 60,
               location |-> "12 Park Rd",
               description |-> None] >>

\* the TeamX calendar built after the crawl of that site
C18_Witness ==
  /\ site = AccringtonSite /\ pc = "done" /\ run = 1
  /\ ics.kind = "team" /\ ics.slug = <<"t", "e", "a", "m", "x">>
  /\ Len(store.disk.league_group) = 1 /\ Len(store.disk.league) = 1
  /\ store.disk.league_group[1].slug
       = <<"a", "c", "c", "r", "i", "n", "g", "t", "o", "n", "_", "w", "e", "d", "s">>
  /\ Len(ics.cal.events) = 2

\* C19: Artifact determinism.  For the store a crawl has left, every call of
\* build_team_ics for a stored team, and of build_league_ics for a league slug,
\* yields one and the same event sequence, also when fixtures of the entity
\* share a kickoff.
C19_Deterministic ==
  pc = "done" =>
    /\ \A i \in Ids(store.disk.team) :
         Cardinality({r.cal.events :
                        r \in build_team_ics(store.disk, store.disk.team[i].slug)}) = 1
    /\ \A league_slug \in LeagueSlugs :
         Cardinality({r.cal.events : r \in build_league_ics(store.disk, league_slug)}) = 1

\* C20: Missing league-group selector.  On a site whose top-level page has no
\* dropdown, fetch_league_names_and_urls, once the page is fetched, returns the
\* empty list and logs exactly one error record (safe_get having logged none),
\* and nothing is raised; crawl_and_populate_db then has no league group to
\* process, fetches no other page, and its next step is its normal end, with
\* no row written to any table.
C20_SelectorAbsent ==
  /\ [](~site.select =>
          /\ pc # "crashed"
          /\ league_groups = << >>
          /\ caller \in {None, "fetch_league_names_and_urls"}
          /\ store.conn = EmptyTables /\ store.disk = EmptyTables)
  /\ [][(/\ ~site.select
         /\ Returned("fetch_league_names_and_urls") /\ resp # None
         /\ pc' # "killed")
          => /\ EventsOf("error") = << >>
             /\ league_groups' = << >>
             /\ logged' = <<Log("error", "no dropdown")>>
             /\ pc' = "for_group" /\ gi' > Len(league_groups')]_vars
  /\ [][(~site.select /\ pc = "for_group" /\ pc' # "killed")
          => /\ pc' = "done"
             /\ logged' = <<Log("info", "done")>>
             /\ store'.disk = EmptyTables]_vars

\* a crawl of a site without the dropdown has come to its normal end
C20_Witness ==
  /\ ~site.select /\ pc = "done" /\ run = 1
  /\ logged = <<Log("info", "done")>>
  /\ store.disk = EmptyTables

\* C21: Malformed top-level page.  A crawl of a site whose top-level page has
\* no league-group dropdown, so that no league group can be discovered, never
\* reaches its normal end.
C21_MalformedPageFatal ==
  ~site.select => pc # "done"

\* C22: No silent skip.  The step in which insert_fixture rejects a fixture
\* (it returns None), and the step in which extract_fixtures_from_league
\* leaves a row of a fetched league page out of its fixtures, each log
\* something.
C22_NoSilentSkip ==
  [][/\ (pc = "insert_fixture" /\ pc' = "for_fixture" /\ ret' = NULL)
          => logged' # << >>
     /\ (/\ pc = "returned" /\ resp # None /\ pc' = "venue"
         /\ Len(fixtures') < Len(LeaguePage.upcoming) + Len(LeaguePage.results))
          => logged' # << >>]_vars

\* the REFERENCES clauses of fixture and league hold in a set of tables
RefsOk(db) ==
  /\ \A i \in Ids(db.fixture) :
       /\ db.fixture[i].league_id \in Ids(db.league)
       /\ db.fixture[i].home_team_id \in Ids(db.team)
       /\ db.fixture[i].away_team_id \in Ids(db.team)
       /\ db.fixture[i].venue_id = NULL \/ db.fixture[i].venue_id \in Ids(db.venue)
  /\ \A i \in Ids(db.league) : db.league[i].league_group_id \in Ids(db.league_group)

\* C23: Referential integrity.  In every state, in what the connection reads
\* and in what is committed, each fixture's league, home team and away team
\* are stored rows, its venue is null or a stored row, and each league's group
\* is a stored row.  When the orchestrator is about to call insert_fixture,
\* the league id, both team ids and the venue id it passes are ids of rows
\* already stored (the venue id may be null), the league belongs to a stored
\* group, and the two team rows are those of the fixture's two names.
C23_ReferentialIntegrity ==
  /\ RefsOk(store.conn) /\ RefsOk(store.disk)
  /\ pc = "insert_fixture" =>
       LET db == store.conn
       IN /\ lg_id \in Ids(db.league_group)
          /\ league_id \in Ids(db.league)
          /\ db.league[league_id].league_group_id \in Ids(db.league_group)
          /\ venue_id = NULL \/ venue_id \in Ids(db.venue)
          /\ home_tid \in Ids(db.team) /\ away_tid \in Ids(db.team)
          /\ db.team[home_tid].slug = slugify(fixtures[fi].home_name)
          /\ db.team[away_tid].slug = slugify(fixtures[fi].away_name)

\* about to insert a fixture with a venue while fixtures are already stored
C23_Witness ==
  /\ pc = "insert_fixture" /\ venue_id # NULL /\ home_tid # away_tid
  /\ Len(store.disk.fixture) >= 1
  /\ store.disk.fixture[1].venue_id = NULL

\* the (group, league) pairs a crawl of the whole site discovers
DiscoveredLeagues ==
  {<<Discovered[g], site.leagues_of[Discovered[g].value][l]>> :
     <<g, l>> \in {gl \in (1..Len(Discovered)) \X (1..MaxLeagues + 1) :
                     gl[2] <= Len(site.leagues_of[Discovered[gl[1]].value])}}

\* C24: Leagues are stored by url.  After a completed crawl of a site none of
\* whose urls is down, with no limit, every league discovered under one group
\* only is a league row that has the league's url and the id of that group,
\* and every fixture of the league's page is a fixture row of that league row;
\* so leagues with different urls are different rows.
C24_LeaguesByUrl ==
  (pc = "done" /\ limit = NoLimit /\ site.down = {}) =>
    \A p \in DiscoveredLeagues :
      (\A q \in DiscoveredLeagues : q[2].url = p[2].url => q[1].value = p[1].value) =>
        \E i \in Ids(store.disk.league) :
          /\ store.disk.league[i].url = p[2].url
          /\ store.disk.league[i].league_group_id
               = SelectIdBySlug(store.disk.league_group, slugify(p[1].name))
          /\ LET fxs == PageFixtures(site.page_of[p[2].url])
             IN \A k \in 1..Len(fxs) :
                  \E f \in Ids(store.disk.fixture) :
                    /\ store.disk.fixture[f].league_id = i
                    /\ store.disk.fixture[f].dt_utc = isoformat(astimezone_utc(fxs[k].dt))
                    /\ store.disk.team[store.disk.fixture[f].home_team_id].slug
                         = slugify(fxs[k].home_name)
                    /\ store.disk.team[store.disk.fixture[f].away_team_id].slug
                         = slugify(fxs[k].away_name)

\* C25: The sentinel venue.  A fetched league page without a venue link gives
\* the venue (name "Unknown", no url, the default address); for a venue
\* without url get_or_create_venue returns null and leaves the venue table as
\* it is; a fixture then inserted has a null venue; no stored venue row ever
\* has a null url; and an event of a built calendar whose fixture has a null
\* venue is located at the default location.
C25_SentinelVenue ==
  /\ [](/\ \A i \in Ids(store.conn.venue) : store.conn.venue[i].url # None
        /\ \A i \in Ids(store.disk.venue) : store.disk.venue[i].url # None
        /\ \A k \in 1..Len(ics.cal.events) :
             store.disk.fixture[ics.rows[k].fid].venue_id = NULL
               => ics.cal.events[k].location = DEFAULT_EVENT_LOCATION)
  /\ [][(/\ Returned("extract_fixtures_from_league") /\ resp # None
         /\ LeaguePage.venue_link.url = None /\ pc' # "killed")
          => /\ pc' = "venue"
             /\ venue_dict' = [name |-> "Unknown", url |-> None,
                               address |-> DEFAULT_EVENT_LOCATION]
             /\ fixtures' = PageFixtures(LeaguePage)]_vars
  /\ [][(pc = "venue" /\ venue_dict.url = None /\ pc' # "killed")
          => /\ venue_id' = NULL
             /\ store'.conn.venue = store.conn.venue
             /\ store'.disk.venue = store.disk.venue]_vars
  /\ [][(/\ pc = "insert_fixture" /\ venue_dict.url = None
         /\ Len(store'.disk.fixture) > Len(store.disk.fixture))
          => store'.disk.fixture[Len(store'.disk.fixture)].venue_id = NULL]_vars

\* a calendar with an event at the default location for a fixture stored with a
\* null venue, from a league page without a venue link, next to a stored venue
C25_Witness ==
  /\ pc = "done" /\ ics.kind = "team"
  /\ site.page_of["/l1"].venue_link = NoVenueLink
  /\ Len(store.disk.venue) >= 1
  /\ \E k \in 1..Len(ics.cal.events) :
       /\ store.disk.fixture[ics.rows[k].fid].venue_id = NULL
       /\ ics.cal.events[k].location = DEFAULT_EVENT_LOCATION

\* C26: Throttling.  The step that ends a league's loop over its fixtures
\* (with or without fixtures, the league page fetched or not) is a sleep of
\* 0.5 s that fetches nothing and moves on to the next league.  A league page
\* is fetched only from the head of the league loop, and the crawl is at the
\* head of the league loop only for the first league of a group, right after
\* the group's page was read, or right after that sleep; it leaves the league
\* loop for the next group only from the head of the league loop.  So a sleep
\* of 0.5 s lies between the fetches of any two league pages of a run.
C26_Throttle ==
  /\ [][(pc = "for_fixture" /\ fi > Len(fixtures) /\ pc' # "killed")
          => /\ logged' = <<Log("sleep", "0.5")>>
             /\ pc' = "for_league" /\ li' = li + 1
             /\ UNCHANGED <<fetch, store, gi>>]_vars
  /\ [][(caller' = "extract_fixtures_from_league" /\ caller # caller')
          => /\ pc = "for_league" /\ li <= Len(parsed_leagues) /\ li' = li
             /\ full_url' = FullUrl(parsed_leagues[li].url)]_vars
  /\ [][(pc' = "for_league" /\ pc # "for_league")
          => \/ pc = "for_fixture" /\ logged' = <<Log("sleep", "0.5")>>
             \/ Returned("parse_league_group") /\ li' = 1]_vars
  /\ [][~(pc' = "for_league" /\ pc = "for_league")]_vars
  /\ [][(pc' = "for_group" /\ pc # "for_group")
          => \/ pc = "for_league" /\ li > Len(parsed_leagues)
             \/ Returned("fetch_league_names_and_urls")]_vars

\* the sleep after a league without fixtures, with another league to fetch
C26_Witness ==
  /\ logged = <<Log("sleep", "0.5")>> /\ pc = "for_league"
  /\ fixtures = << >>
  /\ li = 2 /\ Len(parsed_leagues) = 2

\* C27: Termination.  Every crawl run comes to its completion state (the
\* loops over, the connection closed, "Done crawling" logged): no run ends
\* anywhere else, so none ends on an exception, from where the completion
\* state is out of reach.
C27_Termination ==
  pc # "crashed"

\* C28: No team without a fixture.  Whenever no crawl run is under way (before
\* the first run and after each completed run) every stored team is the home
\* or the away team of a stored fixture, and every calendar main() builds for
\* a stored team slug is written with at least one event.
C28_EveryTeamPlays ==
  /\ pc \in {"idle", "done"} =>
       \A t \in Ids(store.disk.team) :
         \E f \in Ids(store.disk.fixture) :
           \/ store.disk.fixture[f].home_team_id = t
           \/ store.disk.fixture[f].away_team_id = t
  /\ ics.kind = "team" =>
       /\ SelectIdBySlug(store.disk.team, ics.slug) # NULL
       /\ ics.cal.written /\ Len(ics.cal.events) >= 1

\* the calendar of the third of three stored teams, after a second run in which
\* every insert_fixture was a duplicate
C28_Witness ==
  /\ pc = "done" /\ run = 2
  /\ Len(store.disk.team) = 3
  /\ ics.kind = "team" /\ ics.slug = store.disk.team[3].slug
  /\ Len(ics.cal.events) = 1

====
